---- MODULE Spec2Model ----
(***************************************************************************)
(* Model of src/index.js (Kiroflix Discord bot): the free-text request     *)
(* handler (messageCreate, lines 295-451), the subtitle pipeline           *)
(* generateDiscordSubtitle (lines 174-227) and the pure selection steps    *)
(* chooseBestAnime (108-120), episode selection (397), chunking (181-186), *)
(* parseIntent and its fallback parser (65-94).                            *)
(*                                                                         *)
(* JavaScript strings are sequences of one-character strings.  JavaScript  *)
(* values of mixed type (a number, a string, null, undefined) are records  *)
(* [t, n, s] with a type tag.                                              *)
(***************************************************************************)
EXTENDS Integers, Sequences, FiniteSets, TLC

\* ------------------------------------------------------------------ bounds
MaxNewlines == 200      \* line separators in a fetched transcript
MaxCands == 2           \* candidates in a catalog search result (pure spec)
MaxResLen == 3          \* characters of a ranking-model answer (pure spec)
MaxEpisodes == 3        \* episodes in an episode list (pure spec)
MaxEpNumber == 2        \* largest episode number in the inputs
MaxTokens == 4          \* words a request text is made of (pure spec)
MaxPrefixTokens == 2    \* words of a title prefix before "Episode 7"
MaxRespTokens == 4      \* tokens of an answer of the intent model (pure spec)

\* --------------------------------------------------------- JS strings
Digits == {"0", "1", "2", "3", "4", "5", "6", "7", "8", "9"}
Whitespace == {" ", "\n", "\t", "\r"}

DigitVal(c) ==
  CASE c = "0" -> 0 [] c = "1" -> 1 [] c = "2" -> 2 [] c = "3" -> 3
    [] c = "4" -> 4 [] c = "5" -> 5 [] c = "6" -> 6 [] c = "7" -> 7
    [] c = "8" -> 8 [] c = "9" -> 9

\* String.prototype.trim
RECURSIVE TrimLeft(_)
TrimLeft(s) ==
  IF s # << >> /\ Head(s) \in Whitespace THEN TrimLeft(Tail(s)) ELSE s

RECURSIVE TrimRight(_)
TrimRight(s) ==
  IF s # << >> /\ s[Len(s)] \in Whitespace
    THEN TrimRight(SubSeq(s, 1, Len(s) - 1)) ELSE s

trim(s) == TrimRight(TrimLeft(s))

UpperLetters ==
  <<"A", "B", "C", "D", "E", "F", "G", "H", "I", "J", "K", "L", "M", "N",
    "O", "P", "Q", "R", "S", "T", "U", "V", "W", "X", "Y", "Z">>
LowerLetters ==
  <<"a", "b", "c", "d", "e", "f", "g", "h", "i", "j", "k", "l", "m", "n",
    "o", "p", "q", "r", "s", "t", "u", "v", "w", "x", "y", "z">>
\* [a-zA-Z]
Letters ==
  {UpperLetters[k] : k \in 1..26} \cup {LowerLetters[k] : k \in 1..26}

\* String.prototype.toLowerCase, and the case folding of a /i pattern, on
\* the Latin letters
LowerChar(c) ==
  IF \E k \in 1..26 : UpperLetters[k] = c
    THEN LowerLetters[CHOOSE k \in 1..26 : UpperLetters[k] = c]
    ELSE c

toLowerCase(s) == [i \in 1..Len(s) |-> LowerChar(s[i])]

\* All sequences over S of length 0..n
SeqsUpTo(S, n) == UNION {[1..k -> S] : k \in 0..n}

\* ---------------------------------------------------------- JS values
JSNum(n) == [t |-> "number", n |-> n, s |-> << >>]
JSStr(s) == [t |-> "string", n |-> 0, s |-> s]
JSNull == [t |-> "null", n |-> 0, s |-> << >>]
JSUndefined == [t |-> "undefined", n |-> 0, s |-> << >>]

\* A JS number is [nan, val]; NaN is [nan |-> TRUE, val |-> 0]
NaN == [nan |-> TRUE, val |-> 0]
Num(n) == [nan |-> FALSE, val |-> n]

RECURSIVE DecimalValue(_)
DecimalValue(s) ==
  IF s = << >> THEN 0
  ELSE 10 * DecimalValue(SubSeq(s, 1, Len(s) - 1)) + DigitVal(s[Len(s)])

\* Number(v): a number is itself, null is 0, undefined is NaN, a string is
\* trimmed and then "" is 0, a run of digits its value, anything else NaN.
Number(v) ==
  CASE v.t = "number" -> Num(v.n)
    [] v.t = "null" -> Num(0)
    [] v.t = "undefined" -> NaN
    [] v.t = "string" ->
         LET w == trim(v.s) IN
         IF \A i \in 1..Len(w) : w[i] \in Digits THEN Num(DecimalValue(w))
         ELSE NaN

\* a === b on two JS numbers (NaN equals nothing)
StrictEqNum(a, b) == ~a.nan /\ ~b.nan /\ a.val = b.val

\* ------------------------------------------------------------ AI CORE
\* The outcome of the model call is [ok, text]; askAI turns a transport
\* error, and a missing text, into the empty string.
askAI(outcome) == IF outcome.ok THEN outcome.text ELSE << >>

\* ----------------------------------------------------------- BEST MATCH
\* res.match(/\d+/)?.[0]: the first maximal run of digits, or undefined
RECURSIVE DigitRun(_)
DigitRun(s) ==
  IF s # << >> /\ Head(s) \in Digits THEN <<Head(s)>> \o DigitRun(Tail(s))
  ELSE << >>

RECURSIVE FirstDigits(_)
FirstDigits(s) ==
  IF s = << >> THEN [found |-> FALSE, s |-> << >>]
  ELSE IF Head(s) \in Digits THEN [found |-> TRUE, s |-> DigitRun(s)]
  ELSE FirstDigits(Tail(s))

\* Array.prototype.find: the index (1-based) of the first element with P,
\* 0 when there is none
FindFirst(xs, P(_)) ==
  IF \E i \in 1..Len(xs) : P(xs[i])
    THEN CHOOSE i \in 1..Len(xs) : P(xs[i]) /\ \A j \in 1..(i - 1) : ~P(xs[j])
    ELSE 0

chooseBestAnimeLastFallback(res, results) ==
  LET id == FirstDigits(res)
      Hit(a) == id.found /\ a.id = id.s
      k == FindFirst(results, Hit)
  IN  IF k # 0 THEN results[k] ELSE results[Len(results)]

\* results.find(a => a.id === id) || results[0]; a candidate id is a string
chooseBestAnime(res, results) ==
  LET id == FirstDigits(res)
      Hit(a) == id.found /\ a.id = id.s
      k == FindFirst(results, Hit)
  IN  IF k # 0 THEN results[k] ELSE results[1]

\* ------------------------------------------------------ EPISODE SELECTION
selectEpisodeNoCoercion(episodes, requested) ==
  LET Hit(e) == e.number = requested
      k == FindFirst(episodes, Hit)
  IN  IF k # 0 THEN episodes[k] ELSE episodes[1]

\* episodes.find(e => Number(e.number) === Number(intent.episode)) || episodes[0]
selectEpisode(episodes, requested) ==
  LET Hit(e) == StrictEqNum(Number(e.number), Number(requested))
      k == FindFirst(episodes, Hit)
  IN  IF k # 0 THEN episodes[k] ELSE episodes[1]

\* --------------------------------------------------------------- CHUNKING
chunkSize == 100

Min(a, b) == IF a < b THEN a ELSE b

\* vttText.split(/\r?\n/).length: a transcript is [nl, text], the number of
\* line separators in it and whether it holds any other character; the
\* empty string is [nl |-> 0, text |-> FALSE].  split cuts at every
\* separator, so there is one line more than there are separators.
linesLength(vttText) == vttText.nl + 1

RECURSIVE ChunksFromOverlapping(_, _)
ChunksFromOverlapping(i, L) ==
  IF i < L
    THEN <<[start |-> i, end |-> Min(i + chunkSize, L - 1)]>>
         \o ChunksFromOverlapping(i + chunkSize, L)
    ELSE << >>

\* for (i = 0; i < lines.length; i += chunkSize)
\*   chunks.push([i, Math.min(i + chunkSize - 1, lines.length - 1)])
RECURSIVE ChunksFrom(_, _)
ChunksFrom(i, L) ==
  IF i < L
    THEN <<[start |-> i, end |-> Min(i + chunkSize - 1, L - 1)]>>
         \o ChunksFrom(i + chunkSize, L)
    ELSE << >>

makeChunksOverlapping(L) == ChunksFromOverlapping(0, L)

makeChunks(L) == ChunksFrom(0, L)

\* Math.floor((completedChunks / chunks.length) * 100).  Exact in integers;
\* the double computation gives the same value for fewer than 50 chunks
\* (the first difference is 29/50), so for every chunk count reached here.
\* (index, the callback's own chunk index, is in scope and not used.)
chunkPercentByIndex(completedChunks, index, length) ==
  ((index + 1) * 100) \div length

chunkPercent(completedChunks, index, length) ==
  (completedChunks * 100) \div length

\* results.join("\n") of an array without holes
RECURSIVE joinLines(_)
joinLines(rs) ==
  IF rs = << >> THEN << >>
  ELSE IF Len(rs) = 1 THEN rs[1]
  ELSE rs[1] \o <<"\n">> \o joinLines(Tail(rs))

\* const finalSubtitle = results.join("\n"): rs is the array, a function on
\* 0..n-1 of [set, val]; a slot never assigned (a hole) joins as ""
assemble(rs) ==
  joinLines([k \in 1..Cardinality(DOMAIN rs) |->
               IF rs[k - 1].set THEN rs[k - 1].val ELSE << >>])

\* the slot a completing chunk writes, were the results pushed as they arrive
resultSlotByArrival(index, completedChunks) == completedChunks

\* results[index] = ...: the slot is the chunk's own index, whatever the
\* number of chunks completed before it
resultSlot(index, completedChunks) == index

\* the error text kept as the chunk's result
chunkResultKeepsError(outcome) ==
  IF outcome.ok THEN trim(outcome.text) ELSE <<"e", "r", "r">>

\* translated.trim(), or "" in the catch of a failed request
chunkResult(outcome) == IF outcome.ok THEN trim(outcome.text) ELSE << >>

\* ------------------------------------------------------- SUBTITLE BRANCH
English == <<"E", "n", "g", "l", "i", "s", "h">>

\* intent.subtitleLang || "English"
requestedLang(intent) ==
  IF intent.subtitleLang.t = "string" /\ intent.subtitleLang.s # << >>
    THEN intent.subtitleLang.s ELSE English

existingTrackCaseSensitive(subs, lang) ==
  LET Hit(t) == t.lang = lang IN FindFirst(subs, Hit)

\* subs.find(s => s.lang.toLowerCase() === lang.toLowerCase())
existingTrack(subs, lang) ==
  LET Hit(t) == toLowerCase(t.lang) = toLowerCase(lang) IN FindFirst(subs, Hit)

\* ----------------------------------------------------------------- INTENT
\* what parseIntent returns: null, or an object of which the handler reads
\* title, episode, subtitle and subtitleLang (each a JS value, undefined
\* when the object has no such key)
JSTrue == [t |-> "boolean", n |-> 1, s |-> << >>]
JSFalse == [t |-> "boolean", n |-> 0, s |-> << >>]
JSObject == [t |-> "object", n |-> 0, s |-> << >>]
ParsedNull ==
  [null |-> TRUE, title |-> JSUndefined, season |-> JSUndefined,
   episode |-> JSUndefined, subtitle |-> JSUndefined,
   subtitleLang |-> JSUndefined]
ParsedIntent(title, season, episode, subtitle, subtitleLang) ==
  [null |-> FALSE, title |-> title, season |-> season, episode |-> episode,
   subtitle |-> subtitle, subtitleLang |-> subtitleLang]

\* the result of a regular expression search: the span [start, end) of the
\* match and of its capture group [from, to), 1-based
NoMatch == [found |-> FALSE, start |-> 0, end |-> 0, from |-> 0, to |-> 0]
Match(start, end, from, to) ==
  [found |-> TRUE, start |-> start, end |-> end, from |-> from, to |-> to]

\* s has the lower-case word w at index i, case ignored (the /i flag)
StartsWithCI(s, i, w) ==
  /\ i + Len(w) - 1 <= Len(s)
  /\ \A k \in 1..Len(w) : LowerChar(s[i + k - 1]) = w[k]

\* a greedy S*: the first index from i on whose character is not in S
RECURSIVE SkipWhile(_, _, _)
SkipWhile(s, i, S) ==
  IF i <= Len(s) /\ s[i] \in S THEN SkipWhile(s, i + 1, S) ELSE i

\* \s*(C+) tried at index j, C a character class: greedy, and giving back
\* white space never lets C+ match, so there is one attempt
ClassAfter(s, start, j, C) ==
  LET k == SkipWhile(s, j, Whitespace)
      d == SkipWhile(s, k, C)
  IN  IF d > k THEN Match(start, d, k, d) ELSE NoMatch

\* /ep(?:isode)?\s*(\d+)/i tried at index i: the optional group is tried
\* present first, then absent
epAt(s, i) ==
  IF ~StartsWithCI(s, i, <<"e", "p">>) THEN NoMatch
  ELSE LET long == IF StartsWithCI(s, i + 2, <<"i", "s", "o", "d", "e">>)
                     THEN ClassAfter(s, i, i + 7, Digits) ELSE NoMatch
       IN  IF long.found THEN long ELSE ClassAfter(s, i, i + 2, Digits)

\* /season\s*(\d+)/i tried at index i
seasonAt(s, i) ==
  IF ~StartsWithCI(s, i, <<"s", "e", "a", "s", "o", "n">>) THEN NoMatch
  ELSE ClassAfter(s, i, i + 6, Digits)

\* /subtitle(?: in)?\s*([a-zA-Z]+)/i tried at index i
subtitleAt(s, i) ==
  IF ~StartsWithCI(s, i, <<"s", "u", "b", "t", "i", "t", "l", "e">>)
    THEN NoMatch
  ELSE LET long == IF StartsWithCI(s, i + 8, <<" ", "i", "n">>)
                     THEN ClassAfter(s, i, i + 11, Letters) ELSE NoMatch
       IN  IF long.found THEN long ELSE ClassAfter(s, i, i + 8, Letters)

\* String.prototype.match without /g: the match at the leftmost index
RECURSIVE matchEp(_, _)
matchEp(s, i) ==
  IF i > Len(s) THEN NoMatch
  ELSE IF epAt(s, i).found THEN epAt(s, i) ELSE matchEp(s, i + 1)

RECURSIVE matchSeason(_, _)
matchSeason(s, i) ==
  IF i > Len(s) THEN NoMatch
  ELSE IF seasonAt(s, i).found THEN seasonAt(s, i) ELSE matchSeason(s, i + 1)

RECURSIVE matchSubtitle(_, _)
matchSubtitle(s, i) ==
  IF i > Len(s) THEN NoMatch
  ELSE IF subtitleAt(s, i).found THEN subtitleAt(s, i)
  ELSE matchSubtitle(s, i + 1)

\* s.replace(re, "") without /g: the first match is cut out
cutMatch(s, m) ==
  IF m.found THEN SubSeq(s, 1, m.start - 1) \o SubSeq(s, m.end, Len(s))
  ELSE s

\* the capture group of a match
group(s, m) == SubSeq(s, m.from, m.to - 1)

\* the fallback, were a title alone enough for an Intent
fallbackTitleOnly(text) ==
  IF trim(text) # << >> THEN ParsedIntent(JSStr(trim(text)), JSNull,
                                          JSNum(1), JSFalse, JSNull)
  ELSE ParsedNull

\* the catch of parseIntent (86-92): fallback simple parser
fallback(text) ==
  LET epM == matchEp(text, 1)
      seasonM == matchSeason(text, 1)
      noEp == cutMatch(text, epM)
      title == trim(cutMatch(noEp, matchSeason(noEp, 1)))
      subtitleMatch == matchSubtitle(text, 1)
      subtitleLang == IF subtitleMatch.found
                        THEN JSStr(group(text, subtitleMatch)) ELSE JSNull
  IN  IF title # << >> /\ epM.found
        THEN ParsedIntent(
               JSStr(title),
               IF seasonM.found THEN JSStr(group(text, seasonM)) ELSE JSNull,
               JSNum(Number(JSStr(group(text, epM))).val),
               IF subtitleMatch.found THEN JSTrue ELSE JSFalse,
               subtitleLang)
        ELSE ParsedNull

\* the grave accent (U+0060), which has no string form here: "@" stands
\* for it in the answers of the model call
Fence == <<"@", "@", "@">>

\* res.replace(/(fence)json|(fence)/gi, ""): every fence of three grave
\* accents is cut out, with the word json after it when there is one
RECURSIVE stripFences(_, _)
stripFences(s, i) ==
  IF i > Len(s) THEN << >>
  ELSE IF StartsWithCI(s, i, Fence \o <<"j", "s", "o", "n">>)
    THEN stripFences(s, i + 7)
  ELSE IF StartsWithCI(s, i, Fence) THEN stripFences(s, i + 3)
  ELSE <<s[i]>> \o stripFences(s, i + 1)

\* res.match(/\{[\s\S]*\}/)?.[0]: from the first "{" to the last "}"
matchBraces(s) ==
  LET opens == {i \in 1..Len(s) : s[i] = "{"}
      first == CHOOSE i \in opens : \A j \in opens : i <= j
      closes == {i \in 1..Len(s) : s[i] = "}" /\ i > first}
      last == CHOOSE i \in closes : \A j \in closes : i >= j
  IN  IF opens = {} \/ closes = {} THEN [found |-> FALSE, s |-> << >>]
      ELSE [found |-> TRUE, s |-> SubSeq(s, first, last)]

\* ---- JSON.parse, on the JSON grammar without escapes, fractions,
\* exponents and arrays (the responses hold no "\", ".", "[", and a letter
\* only inside a string or a literal)
\* a parse step: failed (SyntaxError), or the index after what was read,
\* the value read and, of an object, the members the handler reads
PFail == [ok |-> FALSE, pos |-> 0, val |-> JSUndefined, obj |-> ParsedNull]
POk(pos, val) == [ok |-> TRUE, pos |-> pos, val |-> val, obj |-> ParsedNull]
PObject(pos, obj) == [ok |-> TRUE, pos |-> pos, val |-> JSObject, obj |-> obj]
EmptyObject ==
  ParsedIntent(JSUndefined, JSUndefined, JSUndefined, JSUndefined,
               JSUndefined)

\* obj[key] = v, for the keys the handler reads
setMember(obj, key, v) ==
  CASE key = <<"t", "i", "t", "l", "e">> -> [obj EXCEPT !.title = v]
    [] key = <<"s", "e", "a", "s", "o", "n">> -> [obj EXCEPT !.season = v]
    [] key = <<"e", "p", "i", "s", "o", "d", "e">> ->
         [obj EXCEPT !.episode = v]
    [] key = <<"s", "u", "b", "t", "i", "t", "l", "e">> ->
         [obj EXCEPT !.subtitle = v]
    [] key = <<"s", "u", "b", "t", "i", "t", "l", "e", "L", "a", "n", "g">> ->
         [obj EXCEPT !.subtitleLang = v]
    [] OTHER -> obj

At(s, i) == IF i >= 1 /\ i <= Len(s) THEN s[i] ELSE ""

\* the first index from i on whose character is in S
RECURSIVE SkipUntil(_, _, _)
SkipUntil(s, i, S) ==
  IF i <= Len(s) /\ s[i] \notin S THEN SkipUntil(s, i + 1, S) ELSE i

\* a string literal at i: up to the next quote, no control character
parseString(s, i) ==
  LET j == SkipUntil(s, i + 1, {"\"", "\n", "\t", "\r"})
  IN  IF At(s, i) = "\"" /\ At(s, j) = "\""
        THEN POk(j + 1, JSStr(SubSeq(s, i + 1, j - 1)))
        ELSE PFail

\* a number at i: -? (0 | [1-9][0-9]*); a digit after a leading 0 is an
\* unexpected token
parseNumber(s, i) ==
  LET k == IF At(s, i) = "-" THEN i + 1 ELSE i
      d == SkipWhile(s, k, Digits)
      n == DecimalValue(SubSeq(s, k, d - 1))
  IN  IF d = k \/ (At(s, k) = "0" /\ d > k + 1) THEN PFail
      ELSE POk(d, JSNum(IF k > i THEN 0 - n ELSE n))

\* null, true, false
parseLiteral(s, i) ==
  IF SubSeq(s, i, Min(i + 3, Len(s))) = <<"n", "u", "l", "l">>
    THEN POk(i + 4, JSNull)
  ELSE IF SubSeq(s, i, Min(i + 3, Len(s))) = <<"t", "r", "u", "e">>
    THEN POk(i + 4, JSTrue)
  ELSE IF SubSeq(s, i, Min(i + 4, Len(s))) = <<"f", "a", "l", "s", "e">>
    THEN POk(i + 5, JSFalse)
  ELSE PFail

RECURSIVE parseValue(_, _)
RECURSIVE parseMembers(_, _, _)

\* the members of an object from i on (after "{" or ","), up to its "}";
\* a later member of the same key replaces the earlier one
parseMembers(s, i, obj) ==
  LET key == parseString(s, i)
      colon == SkipWhile(s, key.pos, Whitespace)
      v == parseValue(s, SkipWhile(s, colon + 1, Whitespace))
      next == SkipWhile(s, v.pos, Whitespace)
      obj1 == setMember(obj, key.val.s, v.val)
  IN  IF ~key.ok \/ At(s, colon) # ":" THEN PFail
      ELSE IF ~v.ok THEN PFail
      ELSE IF At(s, next) = "}" THEN PObject(next + 1, obj1)
      ELSE IF At(s, next) = ","
        THEN parseMembers(s, SkipWhile(s, next + 1, Whitespace), obj1)
      ELSE PFail

\* a value at i
parseValue(s, i) ==
  IF At(s, i) = "{"
    THEN LET k == SkipWhile(s, i + 1, Whitespace)
         IN  IF At(s, k) = "}" THEN PObject(k + 1, EmptyObject)
             ELSE parseMembers(s, k, EmptyObject)
  ELSE IF At(s, i) = "\"" THEN parseString(s, i)
  ELSE IF At(s, i) = "-" \/ At(s, i) \in Digits THEN parseNumber(s, i)
  ELSE parseLiteral(s, i)

\* JSON.parse(json): one value and nothing but white space around it
JSONparse(s) ==
  LET v == parseValue(s, SkipWhile(s, 1, Whitespace))
  IN  IF v.ok /\ SkipWhile(s, v.pos, Whitespace) = Len(s) + 1 THEN v
      ELSE PFail

\* what stands for an exception thrown to the caller
Raised ==
  [null |-> FALSE, title |-> JSUndefined, season |-> JSUndefined,
   episode |-> JSUndefined, subtitle |-> JSUndefined,
   subtitleLang |-> [t |-> "raised", n |-> 0, s |-> << >>]]

\* parseIntent without its catch: a failure of the primary path is raised
parseIntentUncaught(outcome, text) ==
  LET res == trim(stripFences(askAI(outcome), 1))
      json == matchBraces(res)
      parsed == JSONparse(json.s)
  IN  IF json.found /\ parsed.ok THEN parsed.obj ELSE Raised

\* parseIntent (65-94): the object parsed from the answer of the model, or, when
\* there is no answer, no braces in it (throw 82) or JSON.parse throws
\* (83), what the catch's fallback parser makes of the text
parseIntent(outcome, text) ==
  LET res == trim(stripFences(askAI(outcome), 1))
      json == matchBraces(res)
      parsed == JSONparse(json.s)
  IN  IF json.found /\ parsed.ok THEN parsed.obj ELSE fallback(text)

\* ================================================================ STATE
VARIABLES
  hpc,             \* where the messageCreate handler (295-451) stands
  intent,          \* const intent = await parseIntent(text)
  animeResults,    \* const results = await searchAnime(intent.title)
  anime,           \* const anime = await chooseBestAnime(intent, results)
  episodes,        \* const episodes = await getEpisodes(anime.id)
  episode,         \* const episode = episodes.find(...) || episodes[0]
  stream,          \* const stream = await generateStream(episode.id)
  subs,            \* const subs = await fetchAvailableSubtitles(episode.id)
  finalReplyText,  \* let finalReplyText
  logged,          \* the replies passed to logUserUsage, in order
  sent,            \* the messages delivered to replyChannel, in order
  calls,           \* the external operations started so far
  faults,          \* the kinds of call that have rejected (console.error)
  ppc,             \* where generateDiscordSubtitle (174-227) stands
  chunks,          \* const chunks
  results,         \* const results = new Array(chunks.length)
  completedChunks, \* let completedChunks
  cpc,             \* per chunk: where its async callback (191-206) stands
  cpct,            \* per chunk: the percentage of its msg.edit in flight
  resp,            \* per chunk: how its translation request settled
  reports,         \* the percentages passed to msg.edit, in call order
  msg,             \* the status message: [content, deleted]
  finalSubtitle,   \* const finalSubtitle
  saved,           \* what save_subtitle.php has stored: [done, content]
  args,            \* pure specifications: the input of the function applied
  ret,             \* pure specifications: its result
  called           \* pure specifications: whether it has been applied

hdata == <<intent, animeResults, anime, episodes, episode, stream, subs>>
hvars == <<hpc, intent, animeResults, anime, episodes, episode, stream,
           subs, finalReplyText, logged>>
cvars == <<chunks, results, completedChunks, cpc, cpct, resp, reports>>
pvars == <<ppc, chunks, results, completedChunks, cpc, cpct, resp, reports,
           msg, finalSubtitle, saved>>
fvars == <<args, ret, called>>
vars == <<hpc, intent, animeResults, anime, episodes, episode, stream, subs,
          finalReplyText, logged, sent, calls, faults, ppc, chunks, results,
          completedChunks, cpc, cpct, resp, reports, msg, finalSubtitle,
          saved, args, ret, called>>

\* --------------------------------------------- what the services answer
Intent(ep, sub, lang) ==
  [null |-> FALSE, episode |-> ep, subtitle |-> sub, subtitleLang |-> lang]
NullIntent ==
  [null |-> TRUE, episode |-> JSUndefined, subtitle |-> FALSE,
   subtitleLang |-> JSNull]

\* parseIntent returns null or an object
IntentOutcomes ==
  {NullIntent,
   Intent(JSNum(2), FALSE, JSNull),
   Intent(JSNum(2), TRUE, JSStr(<<"f", "r">>)),
   Intent(JSNull, TRUE, JSNull)}

Candidate(id, title) == [id |-> id, title |-> title]
SearchOutcomes ==
  {<< >>, <<Candidate(<<"1">>, "A"), Candidate(<<"1", "2">>, "B")>>}

\* the ranking model: a transport error, an answer naming a listed id,
\* an answer without digits
RankOutcomes ==
  {[ok |-> FALSE, text |-> << >>],
   [ok |-> TRUE, text |-> <<"i", "d", " ", "1", "2">>],
   [ok |-> TRUE, text |-> <<"i", "d">>]}

Episode(id, number) == [id |-> id, number |-> number]
EpisodeOutcomes ==
  {<< >>, <<Episode("e1", JSNum(1)), Episode("e2", JSStr(<<"2">>))>>}

Track(lang) == [lang |-> lang]
SubsOutcomes ==
  {<< >>, <<Track(<<"e", "n">>), Track(<<"F", "R">>)>>,
   <<Track(<<"e", "n", "g", "l", "i", "s", "h">>)>>}

Transcript(nl, text) == [nl |-> nl, text |-> text]
\* every transcript up to the bound (the chunking specification) and the
\* ones the pipeline is run on: the empty string, one line, a full chunk,
\* one line more, and the longest
Transcripts == {Transcript(n, b) : n \in 0..MaxNewlines, b \in BOOLEAN} 
FetchedTranscripts ==
  {Transcript(0, FALSE), Transcript(chunkSize - 1, TRUE),
   Transcript(chunkSize, TRUE), Transcript(MaxNewlines, TRUE)}

\* a chunk translation request fails, or answers a text
TranslateOutcomes ==
  {[ok |-> FALSE, text |-> << >>],
   [ok |-> TRUE, text |-> <<"a">>],
   [ok |-> TRUE, text |-> <<" ", "b", "\n">>]}

\* ----------------------------------------------------------------- texts
Finding == "Finding episode..."
CouldNotUnderstand == "Could not understand request"
NotFound == "Anime not found"
NoEpisodes == "Episodes unavailable"
StreamUnavailable == "Could not generate stream"
Understood == "Understood"
WentWrong == "Something went wrong."
EarlyOutcomes == {CouldNotUnderstand, NotFound, NoEpisodes, StreamUnavailable}

NoCandidate == Candidate(<< >>, "")
NoEpisode == Episode("", JSUndefined)
Progress(p) == [kind |-> "progress", percent |-> p]
FailedNotice == [kind |-> "failed", percent |-> 0]
NoMessage == [content |-> Progress(0), deleted |-> FALSE, exists |-> FALSE]

Idx(n) == 0..(n - 1)

\* ================================================================= INIT
HandlerInit ==
  /\ hpc = "start"
  /\ intent = NullIntent
  /\ animeResults = << >>
  /\ anime = NoCandidate
  /\ episodes = << >>
  /\ episode = NoEpisode
  /\ stream = "none"
  /\ subs = << >>
  /\ finalReplyText = ""
  /\ logged = << >>
  /\ sent = << >>
  /\ calls = {}
  /\ faults = {}

PipelineInit ==
  /\ ppc = "idle"
  /\ chunks = << >>
  /\ results = << >>
  /\ completedChunks = 0
  /\ cpc = << >>
  /\ cpct = << >>
  /\ resp = << >>
  /\ reports = << >>
  /\ msg = NoMessage
  /\ finalSubtitle = << >>
  /\ saved = [done |-> FALSE, content |-> << >>]

PureIdle == args = << >> /\ ret = << >> /\ called = FALSE

Init == HandlerInit /\ PipelineInit /\ PureIdle

\* ====================================================== messageCreate
\* a replyChannel.send rejects: catch (err) { logError; await
\* replyChannel.send("Something went wrong.") }
HCatch ==
  /\ hpc' = "sendError"
  /\ faults' = faults \cup {"reply"}
  /\ UNCHANGED <<finalReplyText, logged>>

\* logUserUsage({..., reply: finalReplyText}) of the value just assigned
HLogUsage ==
  /\ hpc' = "log"
  /\ logged' = Append(logged, finalReplyText')

\* finalReplyText = <outcome>; await replyChannel.send(<outcome>)
HEarlyOutcome(text) ==
  /\ finalReplyText' = text
  /\ hpc' = "sendOutcome"
  /\ UNCHANGED logged

\* if (!stream)
streamFailedNever(s) == FALSE

streamFailed(s) == s = "null"

\* A free-text request arrives: await replyChannel.send("Finding ...")
Receive ==
  /\ hpc = "start"
  /\ hpc' = "sendFinding"
  /\ UNCHANGED <<hdata, finalReplyText, logged, sent, calls, faults, pvars,
                 fvars>>

\* line 355 settles; 356-359 start parseIntent
SendFindingSettle ==
  /\ hpc = "sendFinding"
  /\ \/ /\ sent' = Append(sent, Finding)
        /\ finalReplyText' = Finding
        /\ hpc' = "parseIntent"
        /\ calls' = calls \cup {"parseIntent"}
        /\ UNCHANGED <<logged, faults>>
     \/ HCatch /\ UNCHANGED <<sent, calls>>
  /\ UNCHANGED <<hdata, pvars, fvars>>

\* line 359 returns; 360-372
ParseIntentReturn ==
  /\ hpc = "parseIntent"
  /\ \E i \in IntentOutcomes :
       /\ intent' = i
       /\ IF i.null
            THEN HEarlyOutcome(CouldNotUnderstand) /\ UNCHANGED calls
            ELSE /\ hpc' = "searchAnime"
                 /\ calls' = calls \cup {"searchAnime"}
                 /\ UNCHANGED <<finalReplyText, logged>>
  /\ UNCHANGED <<animeResults, anime, episodes, episode, stream, subs, sent,
                 faults, pvars, fvars>>

\* line 372 returns; 373-384
SearchReturn ==
  /\ hpc = "searchAnime"
  /\ \E rs \in SearchOutcomes :
       /\ animeResults' = rs
       /\ IF Len(rs) = 0
            THEN HEarlyOutcome(NotFound) /\ UNCHANGED calls
            ELSE /\ hpc' = "chooseBestAnime"
                 /\ calls' = calls \cup {"chooseBestAnime"}
                 /\ UNCHANGED <<finalReplyText, logged>>
  /\ UNCHANGED <<intent, anime, episodes, episode, stream, subs, sent,
                 faults, pvars, fvars>>

\* line 384: the ranking call settles, chooseBestAnime returns; 385
ChooseReturn ==
  /\ hpc = "chooseBestAnime"
  /\ \E o \in RankOutcomes :
       anime' = chooseBestAnime(askAI(o), animeResults)
  /\ hpc' = "getEpisodes"
  /\ calls' = calls \cup {"getEpisodes"}
  /\ UNCHANGED <<intent, animeResults, episodes, episode, stream, subs,
                 finalReplyText, logged, sent, faults, pvars, fvars>>

\* line 385 returns; 386-398
EpisodesReturn ==
  /\ hpc = "getEpisodes"
  /\ \E es \in EpisodeOutcomes :
       /\ episodes' = es
       /\ IF Len(es) = 0
            THEN /\ HEarlyOutcome(NoEpisodes)
                 /\ UNCHANGED <<episode, calls>>
            ELSE /\ episode' = selectEpisode(es, intent.episode)
                 /\ hpc' = "generateStream"
                 /\ calls' = calls \cup {"generateStream"}
                 /\ UNCHANGED <<finalReplyText, logged>>
  /\ UNCHANGED <<intent, animeResults, anime, stream, subs, sent, faults,
                 pvars, fvars>>

\* line 398 returns null or a stream; 399-418
StreamReturn ==
  /\ hpc = "generateStream"
  /\ \E st \in {"null", "stream"} :
       /\ stream' = st
       /\ IF streamFailed(st)
            THEN HEarlyOutcome(StreamUnavailable)
            ELSE hpc' = "sendEmbed" /\ UNCHANGED <<finalReplyText, logged>>
  /\ UNCHANGED <<intent, animeResults, anime, episodes, episode, subs, sent,
                 calls, faults, pvars, fvars>>

\* the send of an early outcome (362, 375, 388, 401) settles; return
\* logUserUsage(...)
SendOutcomeSettle ==
  /\ hpc = "sendOutcome"
  /\ \/ /\ sent' = Append(sent, finalReplyText)
        /\ finalReplyText' = finalReplyText
        /\ HLogUsage
        /\ UNCHANGED faults
     \/ HCatch /\ UNCHANGED sent
  /\ UNCHANGED <<hdata, calls, pvars, fvars>>

\* line 418 settles; 419-424, or 434 when no subtitle is asked for
SendEmbedSettle ==
  /\ hpc = "sendEmbed"
  /\ \/ /\ sent' = Append(sent, Understood)
        /\ finalReplyText' = Understood
        /\ IF intent.subtitle
             THEN /\ hpc' = "fetchAvailableSubtitles"
                  /\ calls' = calls \cup {"fetchAvailableSubtitles"}
                  /\ UNCHANGED logged
             ELSE HLogUsage /\ UNCHANGED calls
        /\ UNCHANGED faults
     \/ HCatch /\ UNCHANGED <<sent, calls>>
  /\ UNCHANGED <<hdata, pvars, fvars>>

\* line 424 returns; 425-429: the notice, or generateDiscordSubtitle is
\* called and runs to its first await (175)
SubsReturn ==
  /\ hpc = "fetchAvailableSubtitles"
  /\ \E ss \in SubsOutcomes :
       /\ subs' = ss
       /\ IF existingTrack(ss, requestedLang(intent)) # 0
            THEN /\ hpc' = "sendExisting"
                 /\ UNCHANGED <<calls, ppc>>
            ELSE /\ hpc' = "generateDiscordSubtitle"
                 /\ calls' = calls \cup {"generateDiscordSubtitle"}
                 /\ ppc' = "send"
  /\ UNCHANGED <<intent, animeResults, anime, episodes, episode, stream,
                 finalReplyText, logged, sent, faults, cvars, msg,
                 finalSubtitle, saved, fvars>>

\* line 427 settles; 434
SendExistingSettle ==
  /\ hpc = "sendExisting"
  /\ \/ /\ sent' = Append(sent, "Subtitle already available")
        /\ finalReplyText' = finalReplyText
        /\ HLogUsage
        /\ UNCHANGED faults
     \/ HCatch /\ UNCHANGED sent
  /\ UNCHANGED <<hdata, calls, pvars, fvars>>

\* line 443 settles; 444.  A send that rejects here rejects the handler.
SendErrorSettle ==
  /\ hpc = "sendError"
  /\ \/ /\ sent' = Append(sent, WentWrong)
        /\ hpc' = "log"
        /\ logged' = Append(logged, WentWrong)
     \/ hpc' = "rejected" /\ UNCHANGED <<sent, logged>>
  /\ UNCHANGED <<hdata, finalReplyText, calls, faults, pvars, fvars>>

\* logUserUsage settles (it catches its own errors); the handler is done
LogSettle ==
  /\ hpc = "log"
  /\ hpc' = "done"
  /\ UNCHANGED <<hdata, finalReplyText, logged, sent, calls, faults, pvars,
                 fvars>>

\* ============================================ generateDiscordSubtitle
\* return url / return null: the handler's await (429) resumes at 434
PReturns(how) ==
  /\ ppc' = how
  /\ hpc' = "log"
  /\ logged' = Append(logged, finalReplyText)
  /\ UNCHANGED finalReplyText

\* an await outside the try (175) or inside the catch (224) rejects: the
\* function rejects and the handler's catch (441) runs
PRaises ==
  /\ ppc' = "raised"
  /\ hpc' = "sendError"
  /\ faults' = faults \cup {"status"}
  /\ UNCHANGED <<finalReplyText, logged>>

\* the call of the given kind rejects inside the try:
\* catch (err) { console.error; await msg.edit("Failed ...") }
PCatch(kind) ==
  /\ ppc' = "failEdit"
  /\ faults' = faults \cup {kind}

\* line 175 settles; 176-177 start the transcript fetch
PSendSettle ==
  /\ ppc = "send"
  /\ \/ /\ msg' = [content |-> Progress(0), deleted |-> FALSE,
                   exists |-> TRUE]
        /\ sent' = Append(sent, "Generating subtitle")
        /\ ppc' = "fetch"
        /\ calls' = calls \cup {"vttreader"}
        /\ UNCHANGED <<hpc, finalReplyText, logged, faults>>
     \/ PRaises /\ UNCHANGED <<msg, sent, calls>>
  /\ UNCHANGED <<hdata, cvars, finalSubtitle, saved, fvars>>

\* line 177 settles; 181-191: split, chunk, and every chunk callback runs
\* to its await of translate_chunk.php.  Promise.all of no promise is
\* fulfilled at once (208-211).
PFetchSettle ==
  /\ ppc = "fetch"
  /\ \/ \E vttText \in FetchedTranscripts :
          LET cs == makeChunks(linesLength(vttText))
              n == Len(cs)
              empty == [i \in Idx(n) |-> [set |-> FALSE, val |-> << >>]]
          IN  /\ chunks' = cs
              /\ results' = empty
              /\ completedChunks' = 0
              /\ cpc' = [i \in Idx(n) |-> "translating"]
              /\ cpct' = [i \in Idx(n) |-> 0]
              /\ resp' = [i \in Idx(n) |->
                            [settled |-> FALSE, ok |-> FALSE, text |-> << >>]]
              /\ reports' = << >>
              /\ IF n = 0
                   THEN /\ finalSubtitle' = assemble(empty)
                        /\ ppc' = "save"
                        /\ calls' = calls \cup {"save_subtitle"}
                   ELSE /\ ppc' = "awaitAll"
                        /\ calls' = calls \cup {"translate_chunk"}
                        /\ UNCHANGED finalSubtitle
              /\ UNCHANGED faults
     \/ PCatch("vttreader") /\ UNCHANGED <<cvars, finalSubtitle, calls>>
  /\ UNCHANGED <<hvars, sent, msg, saved, fvars>>

\* chunk index's translation request settles; 199-205 up to the await of
\* msg.edit
ChunkSettle(index) ==
  /\ index \in DOMAIN cpc
  /\ cpc[index] = "translating"
  /\ \E o \in TranslateOutcomes :
       /\ results' = [results EXCEPT ![resultSlot(index, completedChunks)] =
                        [set |-> TRUE, val |-> chunkResult(o)]]
       /\ resp' = [resp EXCEPT ![index] =
                     [settled |-> TRUE, ok |-> o.ok, text |-> o.text]]
  /\ completedChunks' = completedChunks + 1
  /\ LET percent == chunkPercent(completedChunks', index, Len(chunks))
     IN  /\ reports' = Append(reports, percent)
         /\ cpct' = [cpct EXCEPT ![index] = percent]
  /\ cpc' = [cpc EXCEPT ![index] = "editing"]
  /\ UNCHANGED <<hvars, sent, calls, faults, ppc, chunks, msg, finalSubtitle,
                 saved, fvars>>

\* a Promise.all that is never fulfilled
allFulfilledNever(c) == FALSE

\* Promise.all (191) is fulfilled when every callback's promise is
allFulfilled(c) == \A j \in DOMAIN c : c[j] = "done"

\* chunk index's msg.edit (205) settles and its callback ends.  Promise.all
\* is fulfilled by the last callback to end (208-211 start the save) and
\* rejected by the first one to reject (222-224).
ChunkEditSettle(index) ==
  /\ index \in DOMAIN cpc
  /\ cpc[index] = "editing"
  /\ \/ /\ ~msg.deleted
        /\ msg' = [msg EXCEPT !.content = Progress(cpct[index])]
        /\ cpc' = [cpc EXCEPT ![index] = "done"]
        /\ IF ppc = "awaitAll" /\ allFulfilled(cpc')
             THEN /\ finalSubtitle' = assemble(results)
                  /\ ppc' = "save"
                  /\ calls' = calls \cup {"save_subtitle"}
             ELSE UNCHANGED <<finalSubtitle, ppc, calls>>
        /\ UNCHANGED faults
     \/ /\ cpc' = [cpc EXCEPT ![index] = "rejected"]
        /\ IF ppc = "awaitAll"
             THEN PCatch("status")
             ELSE ppc' = ppc /\ faults' = faults \cup {"status"}
        /\ UNCHANGED <<msg, finalSubtitle, calls>>
  /\ UNCHANGED <<hvars, sent, chunks, results, completedChunks, cpct, resp,
                 reports, saved, fvars>>

\* line 211 settles; 217-218
PSaveSettle ==
  /\ ppc = "save"
  /\ \/ /\ saved' = [done |-> TRUE, content |-> finalSubtitle]
        /\ ppc' = "sendReady"
        /\ UNCHANGED faults
     \/ PCatch("save_subtitle") /\ UNCHANGED saved
  /\ UNCHANGED <<hvars, sent, calls, cvars, msg, finalSubtitle, fvars>>

\* line 218 settles; 219
PSendReadySettle ==
  /\ ppc = "sendReady"
  /\ \/ /\ sent' = Append(sent, "Subtitle ready")
        /\ ppc' = "delete"
        /\ UNCHANGED faults
     \/ PCatch("status") /\ UNCHANGED sent
  /\ UNCHANGED <<hvars, calls, cvars, msg, finalSubtitle, saved, fvars>>

\* line 219 settles; 221 return url
PDeleteSettle ==
  /\ ppc = "delete"
  /\ \/ /\ msg' = [msg EXCEPT !.deleted = TRUE]
        /\ PReturns("returnedUrl")
        /\ UNCHANGED faults
     \/ PCatch("status") /\ UNCHANGED <<msg, hpc, finalReplyText, logged>>
  /\ UNCHANGED <<hdata, sent, calls, cvars, finalSubtitle, saved, fvars>>

\* line 224 settles; 225 return null
PFailEditSettle ==
  /\ ppc = "failEdit"
  /\ \/ /\ ~msg.deleted
        /\ msg' = [msg EXCEPT !.content = FailedNotice]
        /\ PReturns("returnedNull")
        /\ UNCHANGED faults
     \/ PRaises /\ UNCHANGED msg
  /\ UNCHANGED <<hdata, sent, calls, cvars, finalSubtitle, saved, fvars>>

\* ================================================================= NEXT
\* the most chunks a fetched transcript is cut into
MaxChunks == (MaxNewlines + chunkSize) \div chunkSize

Next ==
  \/ Receive
  \/ SendFindingSettle
  \/ ParseIntentReturn
  \/ SearchReturn
  \/ ChooseReturn
  \/ EpisodesReturn
  \/ StreamReturn
  \/ SendOutcomeSettle
  \/ SendEmbedSettle
  \/ SubsReturn
  \/ SendExistingSettle
  \/ SendErrorSettle
  \/ LogSettle
  \/ PSendSettle
  \/ PFetchSettle
  \/ \E index \in Idx(MaxChunks) : ChunkSettle(index)
  \/ \E index \in Idx(MaxChunks) : ChunkEditSettle(index)
  \/ PSaveSettle
  \/ PSendReadySettle
  \/ PDeleteSettle
  \/ PFailEditSettle

Spec == Init /\ [][Next]_vars

\* every external call in flight settles in the end: a step that can be
\* taken is not put off for ever
SpecLive == Init /\ [][Next]_vars /\ WF_vars(Next)

\* ===================================================== PURE FUNCTIONS
\* Each specification below draws one input and applies one function of
\* the program to it; the handler and the pipeline stay idle.
Idle == HandlerInit /\ PipelineInit
IdleUnchanged ==
  UNCHANGED <<hvars, sent, calls, faults, pvars>>

\* ---- chunking (181-186) on every transcript up to the bound
ChunkInit == Idle /\ args \in Transcripts /\ ret = << >> /\ called = FALSE

ApplyChunking ==
  /\ ~called
  /\ called' = TRUE
  /\ ret' = makeChunks(linesLength(args))
  /\ UNCHANGED args
  /\ IdleUnchanged

SpecChunk == ChunkInit /\ [][ApplyChunking]_vars

\* ---- chooseBestAnime (108-120)
RankChars == {"1", "2", "x", " "}
RankTexts == SeqsUpTo(RankChars, MaxResLen)
\* a transport error, or any text (the empty one included)
AIOutcomes ==
  {[ok |-> FALSE, text |-> << >>]} \cup {[ok |-> TRUE, text |-> t] : t \in RankTexts}
CandidatePool ==
  {Candidate(id, title) : id \in {<<"1">>, <<"1", "2">>, <<"2">>},
                          title \in {"A", "B"}}
CandidateLists == SeqsUpTo(CandidatePool, MaxCands) \ {<< >>}

ChooseInit ==
  /\ Idle
  /\ args \in [outcome : AIOutcomes, results : CandidateLists]
  /\ ret = << >>
  /\ called = FALSE

ApplyChoose ==
  /\ ~called
  /\ called' = TRUE
  /\ ret' = chooseBestAnime(askAI(args.outcome), args.results)
  /\ UNCHANGED args
  /\ IdleUnchanged

SpecChoose == ChooseInit /\ [][ApplyChoose]_vars

\* ---- episode selection (397)
\* an episode number is a number or its decimal string
EpisodeNumbers ==
  {JSNum(n) : n \in 0..MaxEpNumber} \cup {JSStr(<<"1">>), JSStr(<<"0", "2">>)}
EpisodePool == {Episode(id, n) : id \in {"a", "b"}, n \in EpisodeNumbers}
EpisodeLists == SeqsUpTo(EpisodePool, MaxEpisodes) \ {<< >>}
\* intent.episode: a number, a decimal string, null, or absent
RequestedNumbers ==
  {JSNum(n) : n \in 0..(MaxEpNumber + 1)}
    \cup {JSStr(<<"2">>), JSNull, JSUndefined}

SelectInit ==
  /\ Idle
  /\ args \in [episodes : EpisodeLists, requested : RequestedNumbers]
  /\ ret = << >>
  /\ called = FALSE

ApplySelect ==
  /\ ~called
  /\ called' = TRUE
  /\ ret' = selectEpisode(args.episodes, args.requested)
  /\ UNCHANGED args
  /\ IdleUnchanged

SpecSelect == SelectInit /\ [][ApplySelect]_vars

\* ---- the fallback parser of parseIntent (86-92)
\* the words the request texts are made of
TextTokens ==
  {<<"A">>, <<" ">>, <<"e", "p">>, <<"E", "p", "i", "s", "o", "d", "e">>,
   <<"7">>, <<"0">>, <<"s", "e", "a", "s", "o", "n">>,
   <<"S", "e", "a", "s", "o", "n", " ", "0">>,
   <<"s", "u", "b", "t", "i", "t", "l", "e">>}

RECURSIVE Concat(_)
Concat(ts) == IF ts = << >> THEN << >> ELSE Head(ts) \o Concat(Tail(ts))

TokenTexts(n) == {Concat(ts) : ts \in SeqsUpTo(TextTokens, n)}

Episode7 == <<"E", "p", "i", "s", "o", "d", "e", " ", "7">>

\* every text of up to MaxTokens words, and every non-empty prefix of up
\* to MaxPrefixTokens words followed by "Episode 7"
FallbackTexts ==
  TokenTexts(MaxTokens)
    \cup {p \o Episode7 : p \in TokenTexts(MaxPrefixTokens) \ {<< >>}}

FallbackInit ==
  /\ Idle
  /\ args \in FallbackTexts
  /\ ret = << >>
  /\ called = FALSE

ApplyFallback ==
  /\ ~called
  /\ called' = TRUE
  /\ ret' = fallback(args)
  /\ UNCHANGED args
  /\ IdleUnchanged

SpecFallback == FallbackInit /\ [][ApplyFallback]_vars

\* ---- parseIntent (65-94)
\* the tokens the answers of the intent model are made of
ResponseTokens ==
  {<<"{">>, <<"}">>,
   <<"\"", "e", "p", "i", "s", "o", "d", "e", "\"", ":">>,
   <<"7">>, <<"0">>, <<"-">>}
ResponseCores == {Concat(ts) : ts \in SeqsUpTo(ResponseTokens, MaxRespTokens)}
\* what the answer opens with: nothing, a fence, a sentence
ResponseOpeners ==
  {<< >>, Fence \o <<"j", "s", "o", "n", "\n">>, <<"O", "K", ":", " ">>}
\* what it closes with: nothing, a fence, a sentence
ResponseClosers == {<< >>, <<"\n">> \o Fence, <<" ", "o", "k">>}
\* the model call: a transport error, or an answer (the empty one included)
ParseOutcomes ==
  {[ok |-> FALSE, text |-> << >>]}
    \cup {[ok |-> TRUE, text |-> o \o c \o e] :
            o \in ResponseOpeners, c \in ResponseCores, e \in ResponseClosers}
\* a text the fallback makes no Intent of, and one it makes an Intent of
\* (episode 0)
ParseTexts == {<<"A">>, <<"A", " ", "E", "P", " ", "0">>}

ParseInit ==
  /\ Idle
  /\ args \in [outcome : ParseOutcomes, text : ParseTexts]
  /\ ret = << >>
  /\ called = FALSE

ApplyParseIntent ==
  /\ ~called
  /\ called' = TRUE
  /\ ret' = parseIntent(args.outcome, args.text)
  /\ UNCHANGED args
  /\ IdleUnchanged

SpecParse == ParseInit /\ [][ApplyParseIntent]_vars

\* ================================================================ CLAIMS
Settled == {i \in DOMAIN resp : resp[i].settled}
AllSettled == Len(chunks) > 0 /\ Settled = DOMAIN resp
\* what chunk i's request produced: its trimmed text, "" when it failed
ExpectedResult(i) == IF resp[i].ok THEN trim(resp[i].text) ELSE << >>
ExpectedContent ==
  joinLines([k \in 1..Len(chunks) |-> ExpectedResult(k - 1)])
\* the content has been assembled (the save is started right after)
Assembled == "save_subtitle" \in calls
PipelineCalls ==
  {"generateDiscordSubtitle", "vttreader", "translate_chunk", "save_subtitle"}
\* a message operation (reply send, status send/edit/delete) has rejected
DeliveryFault == faults \cap {"reply", "status"} # {}
LeastOf(S) == CHOOSE k \in S : \A j \in S : k <= j

\* C1: whatever the order in which the chunk requests complete, the
\* assembled content (and what is saved) is the per-chunk results joined
\* with newlines in ascending chunk index order.
C1_AssembledInIndexOrder ==
  Assembled =>
    /\ finalSubtitle = ExpectedContent
    /\ saved.done => saved.content = ExpectedContent

\* three chunks completed in reverse index order with different results,
\* and the content was assembled
C1_Witness ==
  /\ Assembled
  /\ Len(chunks) = 3
  /\ cpct[2] < cpct[1] /\ cpct[1] < cpct[0]
  /\ resp[0].ok /\ resp[2].ok /\ resp[0].text # resp[2].text

\* C2: a failed chunk request leaves "" at its own index, the other chunks
\* keep their own results and stay in flight until they settle themselves,
\* the last report is 100 once every chunk completed, and when nothing but
\* translation requests failed the pipeline neither takes its failure path
\* nor rejects: it goes on to save and returns the URL.
C2_ChunkFailureIsLocal ==
  /\ \A i \in Settled :
       results[i] = [set |-> TRUE,
                     val |-> IF resp[i].ok THEN trim(resp[i].text) ELSE << >>]
  /\ \A i \in DOMAIN resp \ Settled :
       cpc[i] = "translating" /\ ~results[i].set
  /\ AllSettled => reports[Len(reports)] = 100
  /\ faults = {} =>
       /\ ppc \notin {"failEdit", "returnedNull", "raised"}
       /\ hpc \notin {"sendError", "rejected"}
       /\ (Len(chunks) > 0 /\ \A i \in DOMAIN cpc : cpc[i] = "done")
            => Assembled
       /\ hpc \in {"log", "done"} /\ "generateDiscordSubtitle" \in calls
            => ppc = "returnedUrl" /\ saved.done

\* some chunk failed, a sibling succeeded, and the pipeline returned the URL
C2_Witness ==
  /\ ppc = "returnedUrl"
  /\ saved.done
  /\ \E i, j \in DOMAIN resp :
       ~resp[i].ok /\ resp[j].ok /\ results[i].val = << >>
         /\ results[j].val # << >>

\* C3: the percentages passed to msg.edit are floor(k/total*100) for the
\* k-th completion, one per completed chunk, never decreasing, and 100 is
\* among them exactly when every chunk has completed.
C3_ProgressMonotone ==
  /\ Len(reports) = Cardinality(Settled)
  /\ Len(reports) = completedChunks
  /\ \A k \in 1..Len(reports) : reports[k] = (k * 100) \div Len(chunks)
  /\ \A k \in 1..(Len(reports) - 1) : reports[k] <= reports[k + 1]
  /\ (\E k \in 1..Len(reports) : reports[k] = 100) <=> AllSettled

\* three chunks all completed, not in index order, one of them failed
C3_Witness ==
  /\ Len(chunks) = 3
  /\ reports = <<33, 66, 100>>
  /\ cpct[0] = 100
  /\ \E i \in DOMAIN resp : ~resp[i].ok

\* C4: when the transcript fetch or the save fails the pipeline returns
\* null and never rejects to its caller, whatever the status-message
\* operations do; translation failures alone never make it return null.
C4_FailureReturnsNull ==
  /\ ("vttreader" \in faults \/ "save_subtitle" \in faults)
       => ppc \in {"failEdit", "returnedNull"}
  /\ ppc = "returnedNull" => faults # {}

\* the outcome the four tests of 360-408 decide, in their order
DecidedOutcome ==
  IF intent.null THEN CouldNotUnderstand
  ELSE IF animeResults = << >> THEN NotFound
  ELSE IF episodes = << >> THEN NoEpisodes
  ELSE IF stream = "null" THEN StreamUnavailable
  ELSE Understood

\* the calls that come after the early return of an outcome
StepsAfter(outcome) ==
  CASE outcome = CouldNotUnderstand ->
         {"searchAnime", "chooseBestAnime", "getEpisodes", "generateStream",
          "fetchAvailableSubtitles"} \cup PipelineCalls
    [] outcome = NotFound ->
         {"chooseBestAnime", "getEpisodes", "generateStream",
          "fetchAvailableSubtitles"} \cup PipelineCalls
    [] outcome = NoEpisodes ->
         {"generateStream", "fetchAvailableSubtitles"} \cup PipelineCalls
    [] outcome = StreamUnavailable ->
         {"fetchAvailableSubtitles"} \cup PipelineCalls
    [] OTHER -> {}

\* C5 as stated: every request that has been handled logged exactly one
\* of the five outcomes, the one decided in the order intent null, search
\* empty, episode list empty, stream generation failed, else Understood,
\* and an early outcome started no later step.
C5_ExactlyOneOfFive ==
  /\ hpc = "done" => logged = <<DecidedOutcome>>
  /\ finalReplyText \in EarlyOutcomes =>
       calls \cap StepsAfter(finalReplyText) = {}

\* C5, amended: at most one outcome is logged for a request; it is the one
\* of the five decided in that order unless a chat delivery or the subtitle
\* pipeline rejected, and then it is the catch's "Something went wrong.";
\* an early outcome starts no later step.
C5_OutcomeOrder ==
  /\ Len(logged) <= 1
  /\ hpc \in {"log", "done"} => Len(logged) = 1
  /\ (hpc \in {"log", "done"} /\ ~DeliveryFault) => logged = <<DecidedOutcome>>
  /\ \A k \in 1..Len(logged) :
       logged[k] # DecidedOutcome => logged[k] = WentWrong /\ DeliveryFault
  /\ finalReplyText \in EarlyOutcomes =>
       /\ finalReplyText = DecidedOutcome
       /\ calls \cap StepsAfter(finalReplyText) = {}

\* stream generation failed after a successful search and episode list:
\* StreamUnavailable is logged and no subtitle step was started
C5_Witness ==
  /\ hpc = "done"
  /\ logged = <<StreamUnavailable>>
  /\ animeResults # << >> /\ episodes # << >>
  /\ intent.subtitle
  /\ "fetchAvailableSubtitles" \notin calls

\* C6 (SpecChunk): a transcript of L lines is cut into ceil(L/100) ranges,
\* ascending, adjacent, disjoint, covering every line index of [0, L) once;
\* all but the last hold 100 lines, the last L mod 100 (100 when that is 0).
C6_ChunkingPartition ==
  called =>
    LET L == linesLength(args)
        n == Len(ret)
        Size(k) == ret[k].end - ret[k].start + 1
    IN  /\ n = (L + 99) \div 100
        /\ \A k \in 1..n : ret[k].start <= ret[k].end
        /\ \A k \in 1..(n - 1) : ret[k].end < ret[k + 1].start
        /\ \A k, m \in 1..n :
             k # m => ret[k].end < ret[m].start \/ ret[m].end < ret[k].start
        /\ \A x \in 0..(L - 1) :
             Cardinality({k \in 1..n : ret[k].start <= x /\ x <= ret[k].end}) = 1
        /\ \A k \in 1..n : ret[k].start >= 0 /\ ret[k].end <= L - 1
        /\ \A k \in 1..(n - 1) : Size(k) = 100
        /\ n > 0 => Size(n) = (IF L % 100 = 0 THEN 100 ELSE L % 100)

\* a transcript of three ranges whose last one is shorter
C6_Witness ==
  /\ called
  /\ Len(ret) = 3
  /\ linesLength(args) % 100 # 0

\* C7 (SpecChoose): chooseBestAnime returns an element of the list for
\* every outcome of the ranking call; the (first) candidate whose id is the
\* first integer token of the answer when there is one, else the first
\* candidate.
C7_ChoosesListedCandidate ==
  called =>
    LET rs == args.results
        tok == FirstDigits(args.outcome.text)
        hits == {k \in 1..Len(rs) :
                   args.outcome.ok /\ tok.found /\ rs[k].id = tok.s}
    IN  /\ \E k \in 1..Len(rs) : ret = rs[k]
        /\ ret = IF hits # {} THEN rs[LeastOf(hits)] ELSE rs[1]

\* the answer names the id of the second candidate, after other text
C7_Witness ==
  /\ called
  /\ Len(args.results) = 2
  /\ args.results[1].id # args.results[2].id
  /\ args.outcome.ok
  /\ args.outcome.text # << >>
  /\ Head(args.outcome.text) \notin Digits
  /\ ret = args.results[2]

\* fetchAvailableSubtitles has returned
SubsReturned ==
  "fetchAvailableSubtitles" \in calls /\ hpc # "fetchAvailableSubtitles"
\* a listed track is in the requested language, case ignored
TrackListed ==
  \E k \in 1..Len(subs) :
    toLowerCase(subs[k].lang) = toLowerCase(requestedLang(intent))

\* C8: when a subtitle is asked for and a listed track is in the requested
\* language (case ignored), no step of the pipeline is ever started and the
\* outcome stays Understood (the reply delivered at 418 and finalReplyText;
\* it is also what is logged once the notice is delivered); the pipeline is
\* started exactly when a subtitle is asked for and no such track is listed.
C8_ExistingTrackSkipsPipeline ==
  /\ (SubsReturned /\ TrackListed) =>
       /\ calls \cap PipelineCalls = {}
       /\ ppc = "idle"
       /\ finalReplyText = Understood
       /\ \E k \in 1..Len(sent) : sent[k] = Understood
       /\ (hpc \in {"log", "done"} /\ ~DeliveryFault) => logged = <<Understood>>
  /\ "generateDiscordSubtitle" \in calls
       <=> (SubsReturned /\ intent.subtitle /\ ~TrackListed)
  /\ calls \cap PipelineCalls # {} => "generateDiscordSubtitle" \in calls
  /\ ppc # "idle" => "generateDiscordSubtitle" \in calls
  /\ SubsReturned => intent.subtitle /\ finalReplyText = Understood

\* "fr" was asked for, the track listed is "FR": the request ends
\* Understood and the pipeline never started
C8_Witness ==
  /\ hpc = "done"
  /\ logged = <<Understood>>
  /\ SubsReturned
  /\ requestedLang(intent) = <<"f", "r">>
  /\ \E k \in 1..Len(subs) : subs[k].lang = <<"F", "R">>
  /\ ppc = "idle"

\* the integer an episode number stands for (a number or a decimal string)
IntOf(v) == IF v.t = "number" THEN v.n ELSE DecimalValue(v.s)

\* C9 (SpecSelect): for a requested number, the first episode whose number
\* is that integer is selected when there is one, else the first episode.
C9_SelectsRequestedEpisode ==
  (called /\ args.requested.t \in {"number", "string"}) =>
    LET es == args.episodes
        hits == {k \in 1..Len(es) :
                   IntOf(es[k].number) = IntOf(args.requested)}
    IN  ret = IF hits # {} THEN es[LeastOf(hits)] ELSE es[1]

\* episode 2 is asked for as a number and found, not in first place, under
\* the string "02"
C9_Witness ==
  /\ called
  /\ args.requested = JSNum(2)
  /\ ret.number = JSStr(<<"0", "2">>)
  /\ ret # args.episodes[1]
  /\ IntOf(args.episodes[1].number) # 2

\* C10 (SpecSelect): with no requested number (null or absent) the first
\* episode of the list is selected, also when an episode numbered 0 stands
\* further down the list.
C10_AbsentSelectsFirst ==
  (called /\ args.requested.t \in {"null", "undefined"}) =>
    ret = args.episodes[1]

\* the spans [i, j) of s that read as word, white space, characters of C:
\* the word case ignored, the white space optional, one character of C or
\* more
SpansAt(s, i, w, C) ==
  {<<i, j>> : j \in {j \in (i + Len(w) + 1)..(Len(s) + 1) :
     \E b \in (i + Len(w))..(j - 1) :
       /\ \A k \in (i + Len(w))..(b - 1) : s[k] \in Whitespace
       /\ \A k \in b..(j - 1) : s[k] \in C}}
SpansOf(s, words, C) ==
  UNION {SpansAt(s, p[1], p[2], C) :
           p \in {q \in (1..Len(s)) \X words :
                    /\ q[1] + Len(q[2]) - 1 <= Len(s)
                    /\ \A k \in 1..Len(q[2]) :
                         LowerChar(s[q[1] + k - 1]) = q[2][k]}}
\* of those, the one a search finds: leftmost, and longest from there
FoundSpan(S) ==
  CHOOSE sp \in S : \A o \in S : sp[1] < o[1] \/ (sp[1] = o[1] /\ sp[2] >= o[2])
\* s without its span [i, j)
Without(s, sp) ==
  [k \in 1..(Len(s) - (sp[2] - sp[1])) |->
     IF k < sp[1] THEN s[k] ELSE s[k + (sp[2] - sp[1])]]
EpisodeSpans(s) ==
  SpansOf(s, {<<"e", "p">>, <<"e", "p", "i", "s", "o", "d", "e">>}, Digits)
SeasonSpans(s) == SpansOf(s, {<<"s", "e", "a", "s", "o", "n">>}, Digits)
\* the text without its episode span, and without the season span of that
WithoutEpisode(s) ==
  IF EpisodeSpans(s) = {} THEN s ELSE Without(s, FoundSpan(EpisodeSpans(s)))
WithoutSeason(s) ==
  IF SeasonSpans(s) = {} THEN s ELSE Without(s, FoundSpan(SeasonSpans(s)))
Stripped(s) == WithoutSeason(WithoutEpisode(s))
Blank(s) == \A k \in 1..Len(s) : s[k] \in Whitespace

\* C11 (SpecFallback): the fallback returns an Intent exactly when the text
\* has an episode span (ep or episode, optional white space, digits) and
\* something other than white space is left once that span and then the
\* season span are taken out; otherwise it returns null.
C11_FallbackNonNullIff ==
  called =>
    /\ ~ret.null <=> (EpisodeSpans(args) # {} /\ ~Blank(Stripped(args)))
    /\ ret.null => ret = ParsedNull
    /\ ~ret.null =>
         /\ ret.title.t = "string" /\ ~Blank(ret.title.s)
         /\ ret.episode.t = "number"

\* a title, a season span and an episode span: an Intent whose title is
\* what is left of the text
C11_Witness ==
  /\ called
  /\ ~ret.null
  /\ SeasonSpans(args) # {}
  /\ ret.title = JSStr(<<"A">>)
  /\ ret.episode = JSNum(7)

\* the text is a prefix that holds more than white space, followed by
\* "Episode 7"
EndsWithEpisode7(s) ==
  /\ Len(s) > Len(Episode7)
  /\ ~Blank(SubSeq(s, 1, Len(s) - Len(Episode7)))
  /\ SubSeq(s, Len(s) - Len(Episode7) + 1, Len(s)) = Episode7
PrefixOf(s) == SubSeq(s, 1, Len(s) - Len(Episode7))

\* C13 (SpecFallback): for a text made of a non-empty title prefix and
\* "Episode 7" the fallback returns episode 7 and, as title, the prefix
\* trimmed (the text with that "Episode 7" taken out), whatever the prefix
\* holds.
C13_Episode7Extracted ==
  (called /\ EndsWithEpisode7(args)) =>
    /\ ~ret.null
    /\ ret.episode = JSNum(7)
    /\ ret.title = JSStr(trim(PrefixOf(args)))

\* some part of s, from a "{" to a "}", is a JSON object
HoldsObject(s) ==
  \E i \in {k \in 1..Len(s) : s[k] = "{"} :
    \E j \in {k \in i..Len(s) : s[k] = "}"} : JSONparse(SubSeq(s, i, j)).ok

\* C12 (SpecParse): parseIntent never raises; on a transport error, an
\* empty answer, an answer without braces and an answer whose braces hold
\* no JSON object it returns what the fallback returns for the text; a
\* result other than the fallback's comes only from an answer that holds a
\* parseable JSON object, and an answer that is one object is returned
\* parsed.
C12_FallsThroughToFallback ==
  called =>
    LET o == args.outcome IN
    /\ ret # Raised
    /\ ret.subtitleLang.t # "raised"
    /\ (~o.ok \/ o.text = << >> \/ ~HoldsObject(o.text))
         => ret = fallback(args.text)
    /\ ret # fallback(args.text) => (o.ok /\ HoldsObject(o.text))
    /\ (o.ok /\ JSONparse(o.text).ok /\ JSONparse(o.text).val = JSObject)
         => ret = JSONparse(o.text).obj

\* the answer has braces but is not JSON: the fallback's Intent is returned
C12_Witness ==
  /\ called
  /\ args.outcome.ok
  /\ \E i, j \in 1..Len(args.outcome.text) :
       i < j /\ args.outcome.text[i] = "{" /\ args.outcome.text[j] = "}"
  /\ ~HoldsObject(args.outcome.text)
  /\ ~ret.null
  /\ ret = fallback(args.text)

\* C17 (SpecParse): the episode of every Intent parseIntent returns, from
\* the answer of the model or from the fallback, is absent, null or a
\* positive integer.
C17_EpisodePositiveOrAbsent ==
  (called /\ ~ret.null) =>
    \/ ret.episode.t \in {"undefined", "null"}
    \/ ret.episode.t = "number" /\ ret.episode.n >= 1

\* the pipeline has left its Translating phase: the save has been issued
\* (208-211) or the catch has been entered (222-224)
LeftTranslating ==
  /\ Len(chunks) > 0
  /\ ppc \in {"save", "sendReady", "delete", "failEdit", "returnedUrl",
              "returnedNull", "raised"}
\* the chunks whose translation request, or whose callback, is outstanding
Outstanding == {i \in DOMAIN cpc : cpc[i] \in {"translating", "editing"}}

\* C14: once the pipeline has left the Translating phase, for the save or
\* for the failure notice, no chunk translation request and no chunk
\* callback is outstanding, whatever translation requests and progress
\* edits failed.
C14_LeavesAfterAllSettled == LeftTranslating => Outstanding = {}

\* the progress edits (205) in flight
EditsInFlight == {i \in DOMAIN cpc : cpc[i] = "editing"}
\* a progress edit is applied to the status message
ProgressApplied ==
  /\ msg'.content # msg.content
  /\ msg'.content.kind = "progress"
  /\ msg.content.kind = "progress"

\* C15: no two progress edits of the status message are in flight at once,
\* and a percentage applied to it is never lower than the one it replaces.
C15_ProgressEditsSerialized ==
  /\ [](Cardinality(EditsInFlight) <= 1)
  /\ [][ProgressApplied => msg'.content.percent >= msg.content.percent]_vars

\* C16 (SpecChunk): the empty transcript is cut into no chunk at all.
C16_EmptyTranscriptNoChunks ==
  (called /\ args = Transcript(0, FALSE)) => Len(ret) = 0

\* the final notice of the run is on the status message (224), or the
\* message was deleted after the ready notice (218-219)
FinalNoticeEmitted == msg.exists /\ (msg.content = FailedNotice \/ msg.deleted)

\* C18: once the final notice has been emitted, the status message is not
\* changed again: no progress edit of a chunk callback still running is
\* applied to it.
C18_NoProgressAfterFinalNotice ==
  [][FinalNoticeEmitted => msg' = msg]_vars

FiveOutcomes == EarlyOutcomes \cup {Understood}
\* the handler has ended: it returned after logging, or rejected
HandlerEnded == hpc \in {"done", "rejected"}
\* the pipeline, when it was invoked, has returned or rejected
PipelineEnded ==
  "generateDiscordSubtitle" \in calls
    => ppc \in {"returnedUrl", "returnedNull", "raised"}

\* C19 as stated (SpecLive): every request ends with one of the five
\* outcomes logged.
C19_EndsWithOneOfFive ==
  <>(hpc = "done" /\ Len(logged) = 1 /\ logged[1] \in FiveOutcomes)

\* C19, amended (SpecLive): when every call in flight settles in the end,
\* the handling of a request ends, and the pipeline with it when it was
\* invoked: with one of the five outcomes logged when no chat delivery and
\* no pipeline call rejected to the handler, else with the catch-all
\* report or a rejection; and as long as it has not ended some call is in
\* flight, whose settling is a step that can be taken.
C19_Terminates ==
  /\ <>(/\ HandlerEnded
        /\ PipelineEnded
        /\ ~DeliveryFault =>
             hpc = "done" /\ Len(logged) = 1 /\ logged[1] \in FiveOutcomes
        /\ hpc = "done" => Len(logged) = 1)
  /\ [](~HandlerEnded => ENABLED Next)

\* a request whose subtitle pipeline ran on three chunks and returned
C19_Witness ==
  /\ hpc = "done"
  /\ ppc = "returnedUrl"
  /\ Len(chunks) = 3
  /\ logged = <<Understood>>

====
